---- MODULE Spec2Model ----
(***************************************************************************)
(* A model of the traveler REST API of recipe-app-api                      *)
(* (src/app/traveler/views.py and src/app/traveler/serializers.py) and of  *)
(* its GraphQL queries (src/app/traveler/schema.py).                       *)
(*                                                                         *)
(* The store holds the Tag and Location tables (attrs), the Spot table     *)
(* with its many-to-many links (spots), and the last request served with   *)
(* its response (response).  Every viewset action is one action of the     *)
(* model: authentication, object lookup, validation, save and response.    *)
(* An update is also modelled statement by statement (inflight), for two   *)
(* workers that serve requests at once.                                    *)
(*                                                                         *)
(* Names and titles are small integers ordered as the strings they stand   *)
(* for; 0 stands for the empty string.  Prices are in cents.  title and    *)
(* price stand for all scalar columns of Spot (time_minutes and link are   *)
(* handled by the same generated serializer fields).                       *)
(***************************************************************************)
EXTENDS Integers, Sequences, FiniteSets, TLC

VARIABLES attrs, spots, response, nwrites, inflight

vars == <<attrs, spots, response, nwrites, inflight>>

\* ------------------------------------------------------------------ bounds
NumUsers == 2
MaxName == 2
MaxId == 2
MaxLocationId == 1
MaxWrites == 3

\* ------------------------------------------------------------- input sets
Anonymous == 0
Users == 1..NumUsers
Callers == Users \cup {Anonymous}

Kinds == {"tags", "locations"}

Names == 0..MaxName
Titles == {1, 2}
Prices == {1999, 2000}
Ids == 1..MaxId
Formats == {"multipart", "json"}
Methods == {"PUT", "PATCH"}
Images == {"jpeg", "notimage"}
ScalarFields == {"title", "price"}
ListFields == {"tags", "locations"}

\* HTTP status codes of rest_framework.status
HTTP_200_OK == 200
HTTP_201_CREATED == 201
HTTP_400_BAD_REQUEST == 400
HTTP_401_UNAUTHORIZED == 401
HTTP_404_NOT_FOUND == 404

\* ---------------------------------------------------------------- helpers
RECURSIVE Arrangements(_)
\* Every sequence that holds each d of DOMAIN mult exactly mult[d] times:
\* the orders in which an unordered query may return its rows.
Arrangements(mult) ==
    LET left == {d \in DOMAIN mult : mult[d] > 0}
    IN  IF left = {} THEN {<<>>}
        ELSE UNION { { <<d>> \o s : s \in Arrangements([mult EXCEPT ![d] = @ - 1]) }
                     : d \in left }

Range(s) == {s[i] : i \in DOMAIN s}

\* int(str_id) of a decimal token
ParseInt(str_id) == CHOOSE n \in 0..(MaxId + 1) : ToString(n) = str_id

\* _params_to_ints: the ids of a comma-separated query value, given as its tokens
ParamsToInts(qs) == [i \in DOMAIN qs |-> ParseInt(qs[i])]

\* A comma-separated query value as the sequence of its tokens; <<>> is the
\* absent (or empty) parameter.
QueryValues(ids) ==
    {<<>>} \cup {<<ToString(i)>> : i \in ids}
           \cup {<<ToString(p[1]), ToString(p[2])>> :
                     p \in {q \in ids \X ids : q[1] # q[2]}}
AssignedOnlyValues == {"", "0", "1"}


\* Mutant: permission_classes = (AllowAny,)
IsAuthenticated_AllowAny(caller) == TRUE

\* permission_classes = (IsAuthenticated,) with TokenAuthentication
IsAuthenticated(caller) == caller # Anonymous

\* ------------------------------------------------------------ the requests
\* The body of a Spot request: the fields it supplies (has) and their values.
\* hasSets are the sets of supplied fields, the other arguments the values.
PayloadsOver(hasSets, titles, prices, tagSets, locationSets) ==
    { p \in [has : hasSets, title : titles \cup {0}, price : prices \cup {0},
             tags : tagSets, locations : locationSets] :
        /\ ("title" \in p.has) = (p.title # 0)
        /\ ("price" \in p.has) = (p.price # 0)
        /\ "tags" \notin p.has => p.tags = {}
        /\ "locations" \notin p.has => p.locations = {} }

\* The request served last: the operation and who called it.
Request(op, caller) == [op |-> op, caller |-> caller]

Response(req, st, data) == [req |-> req, status |-> st, data |-> data]

\* -------------------------------------------------- BaseSpotAttrViewSet
\* bool(int(query_params.get('assigned_only', 0)))
AssignedOnly(param) == IF param = "" THEN FALSE ELSE ParseInt(param) # 0

\* queryset.filter(spot__isnull=False): one row per (record, spot) link;
\* self.queryset alone: one row per record.
AttrJoinRows(kind, assigned_only) ==
    [i \in DOMAIN attrs[kind] |->
        IF assigned_only
        THEN Cardinality({s \in DOMAIN spots : i \in spots[s][kind]})
        ELSE 1]


\* Mutant: the owner filter dropped
AttrFilterUser_Unscoped(kind, rows, user) == rows

\* .filter(user=self.request.user)
AttrFilterUser(kind, rows, user) ==
    [i \in DOMAIN rows |-> IF attrs[kind][i].user = user THEN rows[i] ELSE 0]


\* Mutant: .distinct() dropped
Distinct_Dropped(rows) == rows

\* .distinct()
Distinct(rows) == [i \in DOMAIN rows |-> IF rows[i] > 0 THEN 1 ELSE 0]

\* .order_by('-name'): the rows in an order of descending name
OrderByNameDesc(kind, rows) ==
    { s \in Arrangements(rows) :
        \A i, j \in DOMAIN s :
            i < j => attrs[kind][s[i]].name >= attrs[kind][s[j]].name }

AttrQuerysets(kind, user, param) ==
    OrderByNameDesc(kind,
        Distinct(AttrFilterUser(kind, AttrJoinRows(kind, AssignedOnly(param)), user)))

ListAttrs(caller, kind, param) ==
    LET req == Request("listAttrs", caller)
    IN  /\ IF ~IsAuthenticated(caller)
           THEN response' = Response(req, HTTP_401_UNAUTHORIZED, <<>>)
           ELSE \E data \in AttrQuerysets(kind, caller, param) :
                    response' = Response(req, HTTP_200_OK, data)
        /\ UNCHANGED <<attrs, spots, nwrites, inflight>>


\* Mutant: a blank name accepted (allow_blank=True)
AttrSerializerIsValid_AllowBlank(name) == TRUE

\* TagSerializer / LocationSerializer: name is a required, non-blank CharField
AttrSerializerIsValid(name) == name # 0


\* Mutant: the record saved without the caller as its owner
AttrPerformCreate_NoOwner(kind, name, user) ==
    [attrs EXCEPT ![kind] = Append(@, [name |-> name, user |-> Anonymous])]

\* perform_create: serializer.save(user=self.request.user)
AttrPerformCreate(kind, name, user) ==
    [attrs EXCEPT ![kind] = Append(@, [name |-> name, user |-> user])]

CreateAttr(caller, kind, name) ==
    LET req == Request("createAttr", caller)
    IN  IF ~IsAuthenticated(caller)
        THEN /\ response' = Response(req, HTTP_401_UNAUTHORIZED, <<>>)
             /\ UNCHANGED <<attrs, spots, nwrites, inflight>>
        ELSE IF ~AttrSerializerIsValid(name)
        THEN /\ response' = Response(req, HTTP_400_BAD_REQUEST, <<>>)
             /\ UNCHANGED <<attrs, spots, nwrites, inflight>>
        ELSE /\ nwrites < MaxWrites
             /\ attrs' = AttrPerformCreate(kind, name, caller)
             /\ response' = Response(req, HTTP_201_CREATED, <<Len(attrs'[kind])>>)
             /\ nwrites' = nwrites + 1
             /\ UNCHANGED <<spots, inflight>>

\* ------------------------------------------------------------ SpotViewSet
\* `if tags:` / `if locations:`: an absent or empty parameter filters nothing
ParamGiven(qs) == qs # <<>>


\* Mutant: the locations filter dropped
SpotJoinRows_TagsOnly(tags, locations) ==
    [s \in DOMAIN spots |->
        IF ParamGiven(tags)
        THEN Cardinality(spots[s].tags \cap Range(ParamsToInts(tags)))
        ELSE 1]

\* queryset.filter(tags__id__in=tag_ids), queryset.filter(locations__id__in=...):
\* an inner join, so one row per link of the Spot to a record named in the list.
SpotJoinRows(tags, locations) ==
    [s \in DOMAIN spots |->
        (IF ParamGiven(tags)
         THEN Cardinality(spots[s].tags \cap Range(ParamsToInts(tags)))
         ELSE 1)
      * (IF ParamGiven(locations)
         THEN Cardinality(spots[s].locations \cap Range(ParamsToInts(locations)))
         ELSE 1)]


\* Mutant: the owner filter dropped
SpotFilterUser_Unscoped(rows, user) == rows

\* queryset.filter(user=self.request.user)
SpotFilterUser(rows, user) ==
    [s \in DOMAIN rows |-> IF spots[s].user = user THEN rows[s] ELSE 0]

\* get_queryset: no order_by and no distinct, so the rows come in any order
SpotQuerysets(user, tags, locations) ==
    Arrangements(SpotFilterUser(SpotJoinRows(tags, locations), user))

\* The lists that may be served for the query parameters of a request:
\* get_queryset reads 'tags' and 'locations' and no other parameter.
ListSpotsData(user, tags, locations, ingredients) ==
    SpotQuerysets(user, tags, locations)

ListSpots(caller, tags, locations, ingredients) ==
    LET req == Request("listSpots", caller)
    IN  /\ IF ~IsAuthenticated(caller)
           THEN response' = Response(req, HTTP_401_UNAUTHORIZED, <<>>)
           ELSE \E data \in ListSpotsData(caller, tags, locations, ingredients) :
                    response' = Response(req, HTTP_200_OK, data)
        /\ UNCHANGED <<attrs, spots, nwrites, inflight>>


\* Mutant: get_object looks the pk up in Spot.objects.all()
GetObjectFound_AnyOwner(caller, id) == id \in DOMAIN spots

\* get_object: the Spot with this pk in get_queryset(), else Http404
GetObjectFound(caller, id) ==
    /\ id \in DOMAIN spots
    /\ SpotFilterUser(SpotJoinRows(<<>>, <<>>), caller)[id] > 0

\* Whether the request body carries the key: a form cannot carry an empty list.
InDictionary(format, payload, f) ==
    /\ f \in payload.has
    /\ (format = "multipart" /\ f \in ListFields) => payload[f] # {}

\* Mutant: a form body that lacks a list field gives `empty`, as a JSON body does
FieldSupplied_NoFormDefault(format, partial, payload, f) ==
    InDictionary(format, payload, f)

\* Field.get_value / ManyRelatedField.get_value: whether the field gets a value
\* (not `empty`).  A form body that lacks a list field gives [] unless the
\* update is partial.
FieldSupplied(format, partial, payload, f) ==
    \/ InDictionary(format, payload, f)
    \/ f \in ListFields /\ format = "multipart" /\ ~partial

FieldValue(format, payload, f) ==
    IF InDictionary(format, payload, f) THEN payload[f] ELSE {}


\* Mutant: the primary keys of the lists are not looked up
SpotSerializerIsValid_NoLookup(format, partial, payload) ==
    \A f \in ScalarFields \cup ListFields :
        partial \/ FieldSupplied(format, partial, payload, f)

\* SpotSerializer.is_valid: every field is required unless the update is
\* partial, and every primary key must be one of Tag.objects.all() /
\* Location.objects.all().
SpotSerializerIsValid(format, partial, payload) ==
    /\ \A f \in ScalarFields \cup ListFields :
           partial \/ FieldSupplied(format, partial, payload, f)
    /\ \A f \in ListFields :
           FieldSupplied(format, partial, payload, f) =>
               FieldValue(format, payload, f) \subseteq DOMAIN attrs[f]

\* ModelSerializer.update / create: the validated fields are written,
\* scalars by setattr and save, lists by the related manager's set().
SpotWithValidated(spot, format, partial, payload) ==
    [f \in DOMAIN spot |->
        IF f \in ScalarFields \cup ListFields /\ FieldSupplied(format, partial, payload, f)
        THEN FieldValue(format, payload, f)
        ELSE spot[f]]

NewSpot(user) ==
    [user |-> user, title |-> 0, price |-> 0, image |-> 0,
     tags |-> {}, locations |-> {}, ingredients |-> {}]

\* perform_create: serializer.save(user=self.request.user)
SpotPerformCreate(user, format, payload) ==
    Append(spots, SpotWithValidated(NewSpot(user), format, FALSE, payload))

\* A handler's outcome: the response's status and data, and the Spot table
\* as the handler leaves it.
Outcome(st, data, table) == [status |-> st, data |-> data, spots |-> table]

\* The step of a Spot handler with outcome out: the response is sent and
\* the table written.
Serve(req, out) ==
    /\ response' = Response(req, out.status, out.data)
    /\ IF out.status \notin {HTTP_200_OK, HTTP_201_CREATED}
       THEN spots' = out.spots /\ UNCHANGED nwrites
       ELSE /\ nwrites < MaxWrites
            /\ nwrites' = nwrites + 1
            /\ spots' = out.spots
    /\ UNCHANGED <<attrs, inflight>>

\* CreateModelMixin.create
CreateSpotOutcome(caller, format, payload) ==
    IF ~IsAuthenticated(caller)
    THEN Outcome(HTTP_401_UNAUTHORIZED, <<>>, spots)
    ELSE IF ~SpotSerializerIsValid(format, FALSE, payload)
    THEN Outcome(HTTP_400_BAD_REQUEST, <<>>, spots)
    ELSE Outcome(HTTP_201_CREATED, <<Len(spots) + 1>>,
                 SpotPerformCreate(caller, format, payload))

CreateSpot(caller, format, payload) ==
    \E out \in {CreateSpotOutcome(caller, format, payload)} :
        Serve(Request("createSpot", caller), out)

\* RetrieveModelMixin.retrieve
RetrieveSpotOutcome(caller, id) ==
    IF ~IsAuthenticated(caller)
    THEN Outcome(HTTP_401_UNAUTHORIZED, <<>>, spots)
    ELSE IF ~GetObjectFound(caller, id)
    THEN Outcome(HTTP_404_NOT_FOUND, <<>>, spots)
    ELSE Outcome(HTTP_200_OK, <<id>>, spots)

RetrieveSpot(caller, id) ==
    \E out \in {RetrieveSpotOutcome(caller, id)} :
        /\ response' = Response(Request("retrieveSpot", caller), out.status, out.data)
        /\ UNCHANGED <<attrs, spots, nwrites, inflight>>

\* Mutant: partial=True never passed to the serializer
IsPartial_Never(method) == FALSE

\* UpdateModelMixin.update (PUT) and partial_update (PATCH)
IsPartial(method) == method = "PATCH"

ActionName(method) == IF IsPartial(method) THEN "partialUpdateSpot" ELSE "updateSpot"

UpdateSpotOutcome(caller, id, method, format, payload) ==
    IF ~IsAuthenticated(caller)
    THEN Outcome(HTTP_401_UNAUTHORIZED, <<>>, spots)
    ELSE IF ~GetObjectFound(caller, id)
    THEN Outcome(HTTP_404_NOT_FOUND, <<>>, spots)
    ELSE IF ~SpotSerializerIsValid(format, IsPartial(method), payload)
    THEN Outcome(HTTP_400_BAD_REQUEST, <<>>, spots)
    ELSE Outcome(HTTP_200_OK, <<id>>,
                 [spots EXCEPT ![id] =
                     SpotWithValidated(@, format, IsPartial(method), payload)])

UpdateSpot(caller, id, method, format, payload) ==
    \E out \in {UpdateSpotOutcome(caller, id, method, format, payload)} :
        Serve(Request(ActionName(method), caller), out)


\* Mutant: the upload is not validated
ImageSerializerIsValid_AcceptAny(image) == TRUE

\* SpotImageSerializer.is_valid: the upload must decode as an image
ImageSerializerIsValid(image) == image = "jpeg"

\* serializer.save() of a valid upload: the stored asset's reference
SaveImage(spot) == [spot EXCEPT !.image = 1]

UploadImageOutcome(caller, id, image) ==
    IF ~IsAuthenticated(caller)
    THEN Outcome(HTTP_401_UNAUTHORIZED, <<>>, spots)
    ELSE IF ~GetObjectFound(caller, id)
    THEN Outcome(HTTP_404_NOT_FOUND, <<>>, spots)
    ELSE IF ~ImageSerializerIsValid(image)
    THEN Outcome(HTTP_400_BAD_REQUEST, <<>>, spots)
    ELSE Outcome(HTTP_200_OK, <<id>>, [spots EXCEPT ![id] = SaveImage(@)])

UploadImage(caller, id, image) ==
    \E out \in {UploadImageOutcome(caller, id, image)} :
        Serve(Request("uploadImage", caller), out)

\* ------------------------------------------------- GraphQL (schema.py)
\* Outcomes of a GraphQL execution: the resolver returned, or it raised
AuthFail == 1
DoesNotExist == 2
MultipleObjectsReturned == 3
Executed == 4

\* An optional argument of a query: {} when absent, {v} when given
OptionalArgs(values) == {{}} \cup {{v} : v \in values}


\* Mutant: the boundary moved to include 20
ResolvePriceRating_AtMost(spot) ==
    IF spot.price <= 2000 THEN "Reasonable" ELSE "Expensive"

\* SpotType.resolve_price_rating; price is kept in cents
ResolvePriceRating(spot) ==
    IF spot.price < 2000 THEN "Reasonable" ELSE "Expensive"

\* A Spot as SpotType serves it: stored columns and the derived price_rating
SpotType(id) ==
    [id |-> id, title |-> spots[id].title, price |-> spots[id].price,
     price_rating |-> ResolvePriceRating(spots[id])]

\* user.is_authenticated of info.context.user
ContextIsAuthenticated(caller) == caller # Anonymous

\* Query.resolve_all_spots: Spot.objects.all(), in the order the store gives
ResolveAllSpots(caller) ==
    LET req == Request("allSpots", caller)
    IN  /\ IF ~ContextIsAuthenticated(caller)
           THEN response' = Response(req, AuthFail, <<>>)
           ELSE \E rows \in Arrangements([s \in DOMAIN spots |-> 1]) :
                    response' = Response(req, Executed,
                                         [i \in DOMAIN rows |-> SpotType(rows[i])])
        /\ UNCHANGED <<attrs, spots, nwrites, inflight>>

\* Spot.objects.get(...): the one matching Spot, else the exception raised
ObjectsGet(matching) ==
    IF matching = {} THEN [status |-> DoesNotExist, data |-> <<>>]
    ELSE IF Cardinality(matching) > 1
    THEN [status |-> MultipleObjectsReturned, data |-> <<>>]
    ELSE [status |-> Executed, data |-> <<SpotType(CHOOSE s \in matching : TRUE)>>]

\* Query.resolve_spot: by id if given, else by title if given, else None
ResolveSpotResult(caller, id, title) ==
    IF id # {} THEN ObjectsGet({s \in DOMAIN spots : s \in id})
    ELSE IF title # {} THEN ObjectsGet({s \in DOMAIN spots : spots[s].title \in title})
    ELSE [status |-> Executed, data |-> <<>>]

ResolveSpot(caller, id, title) ==
    /\ response' = Response(Request("spot", caller),
                            ResolveSpotResult(caller, id, title).status,
                            ResolveSpotResult(caller, id, title).data)
    /\ UNCHANGED <<attrs, spots, nwrites, inflight>>

\* ------------------------------------- update requests, statement by statement
\* The update requests that may be in progress at once (one per worker)
Requests == {"a", "b"}

NoPayload == [has |-> {}, title |-> 0, price |-> 0, tags |-> {}, locations |-> {}]

\* A worker with no request: pc is where the request stands in
\* UpdateModelMixin.update, instance the Spot as get_object() read it.
NoRequest ==
    [pc |-> "idle", caller |-> Anonymous, id |-> 0, method |-> "", format |-> "",
     payload |-> NoPayload, instance |-> NewSpot(Anonymous)]

\* serializer.validated_data has the field
Validated(q, f) == FieldSupplied(q.format, IsPartial(q.method), q.payload, f)

\* ModelSerializer.update writes the lists after instance.save(), in the
\* order of Meta.fields: locations, then tags.
ListOrder == <<"locations", "tags">>

\* The statement of the request after position n of ListOrder: the next
\* validated list to set(), or the response.
PcAfter(q, n) ==
    LET left == {i \in DOMAIN ListOrder : i > n /\ Validated(q, ListOrder[i])}
    IN  IF left = {} THEN "done"
        ELSE ListOrder[CHOOSE i \in left : \A j \in left : i <= j]

\* The response of a request that has run to its end
Finish(q, pc) ==
    IF pc = "done"
    THEN response' = Response(Request(ActionName(q.method), q.caller),
                              HTTP_200_OK, <<q.id>>)
    ELSE UNCHANGED response

\* get_object() and serializer.is_valid(): the request is refused, or holds
\* the Spot it read and goes on to save it.
BeginUpdate(r, caller, id, method, format, payload) ==
    /\ inflight[r].pc = "idle"
    /\ LET out == UpdateSpotOutcome(caller, id, method, format, payload)
           q == [pc |-> "save", caller |-> caller, id |-> id, method |-> method,
                 format |-> format, payload |-> payload,
                 instance |-> IF id \in DOMAIN spots THEN spots[id]
                              ELSE NewSpot(Anonymous)]
       IN  IF out.status # HTTP_200_OK
           THEN /\ response' = Response(Request(ActionName(method), caller),
                                        out.status, out.data)
                /\ inflight' = [inflight EXCEPT ![r] = [NoRequest EXCEPT !.pc = "refused"]]
           ELSE /\ inflight' = [inflight EXCEPT ![r] = q]
                /\ UNCHANGED response
    /\ UNCHANGED <<attrs, spots, nwrites>>


\* instance.save() after the setattr of each validated scalar: every column
\* of the row is written from the instance the request read; the links are
\* rows of other tables.
SavedColumn(q, row, f) ==
    IF f \in ListFields \cup {"ingredients"} THEN row[f]
    ELSE IF f \in ScalarFields /\ Validated(q, f)
    THEN FieldValue(q.format, q.payload, f)
    ELSE q.instance[f]

SaveInstance(r) ==
    LET q == inflight[r]
    IN  /\ q.pc = "save"
        /\ spots' = [spots EXCEPT ![q.id] =
                        [f \in DOMAIN @ |-> SavedColumn(q, @, f)]]
        /\ inflight' = [inflight EXCEPT ![r].pc = PcAfter(q, 0)]
        /\ Finish(q, PcAfter(q, 0))
        /\ UNCHANGED <<attrs, nwrites>>

\* field.set(value) of a validated list
SetList(r) ==
    LET q == inflight[r]
    IN  /\ q.pc \in ListFields
        /\ \E n \in DOMAIN ListOrder :
              /\ ListOrder[n] = q.pc
              /\ spots' = [spots EXCEPT ![q.id][q.pc] =
                              FieldValue(q.format, q.payload, q.pc)]
              /\ inflight' = [inflight EXCEPT ![r].pc = PcAfter(q, n)]
              /\ Finish(q, PcAfter(q, n))
        /\ UNCHANGED <<attrs, nwrites>>

\* ------------------------------------------------------------------- Init
Init ==
    /\ attrs = [k \in Kinds |-> <<>>]
    /\ spots = <<>>
    /\ response = Response(Request("", Anonymous), 0, <<>>)
    /\ nwrites = 0
    /\ inflight = [r \in Requests |-> NoRequest]

\* ------------------------------------------------------------------- Next
\* The requests of one step, over the given input sets.
NextOn(callers, names, payloads, formats, tagQs, locationQs, ingredientQs) ==
    \/ \E c \in callers, k \in Kinds, p \in AssignedOnlyValues : ListAttrs(c, k, p)
    \/ \E c \in callers, k \in Kinds, n \in names : CreateAttr(c, k, n)
    \/ \E c \in callers, t \in tagQs, l \in locationQs,
          i \in ingredientQs : ListSpots(c, t, l, i)
    \/ \E c \in callers, f \in formats, p \in payloads : CreateSpot(c, f, p)
    \/ \E c \in callers, i \in Ids : RetrieveSpot(c, i)
    \/ \E c \in callers, i \in Ids, m \in Methods, f \in formats, p \in payloads :
           UpdateSpot(c, i, m, f, p)
    \/ \E c \in callers, i \in Ids, img \in Images : UploadImage(c, i, img)

\* Listing and filtering: every caller, name, set of links and query; the
\* scalar columns are always supplied, with one value each.
QueryPayloads ==
    PayloadsOver({ScalarFields \cup L : L \in SUBSET ListFields},
                 {1}, {1999}, SUBSET Ids, SUBSET (1..MaxLocationId))

TagQueries == QueryValues(Ids)
LocationQueries == QueryValues(1..MaxLocationId)
IngredientQueries == {<<>>, <<ToString(1)>>}

Next ==
    NextOn(Callers, Names, QueryPayloads, {"multipart"},
           TagQueries, LocationQueries, IngredientQueries)

Spec == Init /\ [][Next]_vars

\* Updating: one user, every body in either format; one name, no filters.
UpdatePayloads ==
    PayloadsOver(SUBSET (ScalarFields \cup ListFields),
                 Titles, {1999}, SUBSET Ids, SUBSET (1..MaxLocationId))

NextUpdate ==
    NextOn({1}, {1}, UpdatePayloads, Formats, {<<>>}, {<<>>}, {<<>>})

SpecUpdate == Init /\ [][NextUpdate]_vars

\* GraphQL reads next to REST writes: every caller, Spots without links,
\* both prices.
GraphQLPayloads == PayloadsOver({ScalarFields}, Titles, Prices, {{}}, {{}})

NextGraphQL ==
    \/ \E c \in Callers, p \in GraphQLPayloads : CreateSpot(c, "multipart", p)
    \/ \E c \in Callers, i \in Ids, m \in Methods, p \in GraphQLPayloads :
           UpdateSpot(c, i, m, "multipart", p)
    \/ \E c \in Callers : ResolveAllSpots(c)
    \/ \E c \in Callers, i \in OptionalArgs(Ids), t \in OptionalArgs(Titles) :
           ResolveSpot(c, i, t)

SpecGraphQL == Init /\ [][NextGraphQL]_vars

\* Two workers updating the first Spot while a Tag and Spots are created:
\* one user, JSON bodies (which can carry an empty list) that supply one
\* field or all of them, one Tag to link.
ConcurrentPayloads ==
    PayloadsOver({{"title"}, {"price"}, {"tags"}, ScalarFields \cup ListFields},
                 Titles, {1999}, SUBSET {1}, {{}})

CreatePayloads ==
    PayloadsOver({ScalarFields \cup ListFields}, {1}, {2000}, {{}}, {{}})

NextConcurrent ==
    \/ \E n \in {1} : CreateAttr(1, "tags", n)
    \/ \E p \in CreatePayloads : CreateSpot(1, "json", p)
    \/ \E r \in Requests, m \in Methods, p \in ConcurrentPayloads :
           BeginUpdate(r, 1, 1, m, "json", p)
    \/ \E r \in Requests : SaveInstance(r)
    \/ \E r \in Requests : SetList(r)

SpecConcurrent == Init /\ [][NextConcurrent]_vars

\* ================================================================ claims
IsResponseTo(op, st) == response.req.op = op /\ response.status = st

NoDuplicates(seq) == \A i, j \in DOMAIN seq : i # j => seq[i] # seq[j]

\* The ids a query value names, read off its tokens
IdsNamed(qs) == {i \in 0..(MaxId + 1) : ToString(i) \in Range(qs)}

\* ---- C1
\* C1: whatever creates, updates and uploads came before, a list of Spots
\* served to a caller holds no Spot owned by another user.
C1_ListSpotsOnlyOwn ==
    IsResponseTo("listSpots", HTTP_200_OK) =>
        \A i \in DOMAIN response.data :
            spots[response.data[i]].user = response.req.caller

\* A caller is served a non-empty list while another user owns a Spot.
C1_Witness ==
    /\ IsResponseTo("listSpots", HTTP_200_OK)
    /\ response.data # <<>>
    /\ \E s \in DOMAIN spots : spots[s].user # response.req.caller

\* ---- C2
\* C2: every operation requested without an authenticated caller is answered
\* 401 with no records, and the store stays as it was.
C2_AnonymousGets401 ==
    [][response'.req.caller = Anonymous =>
          /\ response'.status = HTTP_401_UNAUTHORIZED
          /\ response'.data = <<>>
          /\ attrs' = attrs /\ spots' = spots]_vars

\* An anonymous update was refused while a Spot with that much to lose exists.
C2_Witness ==
    /\ response.req.caller = Anonymous
    /\ response.req.op = "partialUpdateSpot"
    /\ response.status = HTTP_401_UNAUTHORIZED
    /\ spots # <<>>

\* ---- C3
\* The records of a kind owned by a user; with assignedOnly those linked to a
\* Spot of any owner.
OwnedAttrs(kind, user, assignedOnly) ==
    { i \in DOMAIN attrs[kind] :
        /\ attrs[kind][i].user = user
        /\ assignedOnly => \E s \in DOMAIN spots : i \in spots[s][kind] }

\* C3: a list of Tags or Locations holds exactly the caller's records (with
\* assigned_only=1 exactly those linked to some Spot), by descending name.
C3_ListAttrsExactDescending ==
    [][response'.req.op = "listAttrs" /\ response'.status = HTTP_200_OK =>
          \A c \in Users, k \in Kinds, p \in AssignedOnlyValues :
              ListAttrs(c, k, p) =>
                  /\ Range(response'.data) = OwnedAttrs(k, c, p = "1")
                  /\ \A i, j \in DOMAIN response'.data :
                         i < j => attrs[k][response'.data[i]].name
                                      >= attrs[k][response'.data[j]].name]_vars

\* Two records of the caller were listed, the greater name first and against
\* the order of creation, while a third record of the kind is someone else's.
C3_Witness ==
    /\ IsResponseTo("listAttrs", HTTP_200_OK)
    /\ Len(response.data) = 2
    /\ \E k \in Kinds :
          /\ Range(response.data) \subseteq OwnedAttrs(k, response.req.caller, FALSE)
          /\ attrs[k][response.data[1]].name > attrs[k][response.data[2]].name
          /\ response.data[1] > response.data[2]
          /\ \E i \in DOMAIN attrs[k] : attrs[k][i].user # response.req.caller

\* ---- C4
\* C4: a list of Tags or Locations holds each record once, however many
\* Spots the record is linked to.
C4_ListAttrsUnique ==
    IsResponseTo("listAttrs", HTTP_200_OK) => NoDuplicates(response.data)

\* A record linked to two Spots was listed (once).
C4_Witness ==
    /\ IsResponseTo("listAttrs", HTTP_200_OK)
    /\ \E k \in Kinds :
          /\ response.data \in Seq(DOMAIN attrs[k])
          /\ Len(response.data) = 1
          /\ attrs[k][response.data[1]].user = response.req.caller
          /\ Cardinality({s \in DOMAIN spots : response.data[1] \in spots[s][k]}) = 2

\* ---- C5
\* The Spots of a user that, for each supplied filter, are linked to at least
\* one record the filter names.
MatchingSpots(user, tags, locations) ==
    { s \in DOMAIN spots :
        /\ spots[s].user = user
        /\ tags # <<>> => spots[s].tags \cap IdsNamed(tags) # {}
        /\ locations # <<>> => spots[s].locations \cap IdsNamed(locations) # {} }

\* C5: the Spots listed under tags and locations filters are exactly the
\* caller's Spots that match every supplied filter (any id within a filter).
C5_ListSpotsFilters ==
    \A c \in Users, t \in TagQueries, l \in LocationQueries, i \in IngredientQueries :
        \A data \in ListSpotsData(c, t, l, i) :
            Range(data) = MatchingSpots(c, t, l)

\* Of two Spots of the caller the list holds only the one linked to a Tag:
\* a tags filter was applied and the Spot without a link left out.
C5_Witness ==
    /\ IsResponseTo("listSpots", HTTP_200_OK)
    /\ \E s1, s2 \in DOMAIN spots :
          /\ spots[s1].user = response.req.caller
          /\ spots[s2].user = response.req.caller
          /\ spots[s1].tags # {}
          /\ spots[s2].tags = {}
          /\ Range(response.data) = {s1}

\* ---- C6
\* C6 (as claimed): with an ingredients filter, every listed Spot is linked
\* to an Ingredient the filter names.
C6_IngredientsFilterApplied ==
    \A c \in Users, t \in TagQueries, l \in LocationQueries, i \in IngredientQueries :
        i # <<>> =>
            \A data \in ListSpotsData(c, t, l, i) :
                \A r \in Range(data) : spots[r].ingredients \cap IdsNamed(i) # {}

\* ---- C7
\* C7 (as claimed): a list of Spots is in strictly descending order of id.
C7_ListSpotsDescendingId ==
    IsResponseTo("listSpots", HTTP_200_OK) =>
        \A i, j \in DOMAIN response.data :
            i < j => response.data[i] > response.data[j]

\* ---- C8
\* C8: creating a Tag or Location with an empty name is refused with 400 and
\* stores nothing; with a name it appends one record of that name owned by
\* the caller, which every list then served to the caller holds.
C8_CreateAttr ==
    [][response'.req.op = "createAttr" =>
          \A c \in Users, k \in Kinds, n \in Names :
              CreateAttr(c, k, n) =>
                  IF n = 0
                  THEN /\ response'.status = HTTP_400_BAD_REQUEST
                       /\ attrs' = attrs /\ spots' = spots
                  ELSE /\ response'.status = HTTP_201_CREATED
                       /\ Len(attrs'[k]) = Len(attrs[k]) + 1
                       /\ SubSeq(attrs'[k], 1, Len(attrs[k])) = attrs[k]
                       /\ attrs'[k][Len(attrs'[k])] = [name |-> n, user |-> c]
                       /\ \A o \in Kinds \ {k} : attrs'[o] = attrs[o]
                       /\ spots' = spots
                       /\ \A data \in AttrQuerysets(k, c, "")' :
                              Len(attrs'[k]) \in Range(data)]_vars

\* A second record with a name already in use was created for the caller.
C8_Witness ==
    /\ IsResponseTo("createAttr", HTTP_201_CREATED)
    /\ \E k \in Kinds :
          /\ Len(attrs[k]) = 2
          /\ response.data = <<2>>
          /\ attrs[k][2].user = response.req.caller
          /\ attrs[k][1] = attrs[k][2]

\* ---- C9
\* A PUT of a Spot by its owner that omits tags, supplies every scalar field
\* and names only Locations that exist.
FullUpdateOmittingTags(c, id, p) ==
    /\ spots[id].user = c
    /\ "tags" \notin p.has
    /\ ScalarFields \subseteq p.has
    /\ p.locations \subseteq DOMAIN attrs["locations"]

TagsClearedScalarsSet(out, id, p) ==
    /\ out.status = HTTP_200_OK
    /\ out.spots[id].tags = {}
    /\ \A f \in ScalarFields : out.spots[id][f] = p[f]

\* C9 (as claimed): such a PUT leaves the Spot with zero tags and the
\* supplied scalar values, whatever the format of its body.
C9_PutOmittingTagsClears ==
    \A c \in Users, id \in DOMAIN spots, f \in Formats, p \in UpdatePayloads :
        FullUpdateOmittingTags(c, id, p) =>
            TagsClearedScalarsSet(UpdateSpotOutcome(c, id, "PUT", f, p), id, p)

\* C9 (amended): with a form-encoded body such a PUT leaves the Spot with
\* zero tags and the supplied scalar values; with a JSON body it is refused
\* with 400 and the store is unchanged.
C9_FormPutOmittingTagsClears ==
    \A c \in Users, id \in DOMAIN spots, p \in UpdatePayloads :
        FullUpdateOmittingTags(c, id, p) =>
            /\ TagsClearedScalarsSet(UpdateSpotOutcome(c, id, "PUT", "multipart", p), id, p)
            /\ UpdateSpotOutcome(c, id, "PUT", "json", p).status = HTTP_400_BAD_REQUEST
            /\ UpdateSpotOutcome(c, id, "PUT", "json", p).spots = spots

\* A PUT was accepted for a Spot that now has a new title and no tags, while
\* a Tag exists that it may have been linked to.
C9_Witness ==
    /\ IsResponseTo("updateSpot", HTTP_200_OK)
    /\ attrs["tags"] # <<>>
    /\ spots[response.data[1]].user = response.req.caller
    /\ spots[response.data[1]].tags = {}
    /\ spots[response.data[1]].title = 2

\* ---- C10
\* A body as its format can carry it: a form has no empty list.
CanCarry(f, p) == f = "multipart" => \A l \in ListFields \cap p.has : p[l] # {}

\* C10: a PATCH of a Spot by its owner leaves every field it does not
\* supply, and every other Spot, as they were; if the ids it names exist it
\* is accepted and each supplied field takes exactly the supplied value
\* (a supplied tags list becomes the tag set); otherwise it is refused and
\* nothing changes.
C10_PatchOnlySupplied ==
    \A c \in Users, id \in DOMAIN spots, f \in Formats, p \in UpdatePayloads :
        (spots[id].user = c /\ CanCarry(f, p)) =>
            LET out == UpdateSpotOutcome(c, id, "PATCH", f, p)
            IN  /\ DOMAIN out.spots = DOMAIN spots
                /\ \A o \in DOMAIN spots \ {id} : out.spots[o] = spots[o]
                /\ \A fld \in DOMAIN spots[id] \ p.has :
                       out.spots[id][fld] = spots[id][fld]
                /\ IF \A l \in ListFields \cap p.has : p[l] \subseteq DOMAIN attrs[l]
                   THEN /\ out.status = HTTP_200_OK
                        /\ \A fld \in p.has : out.spots[id][fld] = p[fld]
                   ELSE /\ out.status = HTTP_400_BAD_REQUEST
                        /\ out.spots = spots

\* A PATCH was accepted, as the third write after the Tag and the Spot were
\* created, for a Spot that is linked to the Tag and has a new title.
C10_Witness ==
    /\ IsResponseTo("partialUpdateSpot", HTTP_200_OK)
    /\ nwrites = 3
    /\ Len(spots) = 1 /\ Len(attrs["tags"]) = 1
    /\ spots[1].user = response.req.caller
    /\ spots[1].tags = {1}
    /\ spots[1].title = 2

\* ---- C11
\* The caller does not own a Spot with this id: there is none, or it is
\* another user's.
NotVisible(c, id) == ~(id \in DOMAIN spots /\ spots[id].user = c)

NotFoundUnchanged(out) == out.status = HTTP_404_NOT_FOUND /\ out.spots = spots

\* C11: retrieve, update (PUT and PATCH, any body) and upload-image addressed
\* to an id that is no Spot of the caller are answered 404 and leave every
\* Spot, Tag and Location as it was.
C11_NotFoundLeavesStore ==
    /\ [](\A c \in Users, id \in Ids :
             NotVisible(c, id) =>
                 /\ NotFoundUnchanged(RetrieveSpotOutcome(c, id))
                 /\ \A m \in Methods, f \in Formats, p \in QueryPayloads :
                        NotFoundUnchanged(UpdateSpotOutcome(c, id, m, f, p))
                 /\ \A img \in Images :
                        NotFoundUnchanged(UploadImageOutcome(c, id, img)))
    /\ [][response'.status = HTTP_404_NOT_FOUND =>
             attrs' = attrs /\ spots' = spots]_vars

\* An update by a user who owns no Spot was answered 404 while another user's
\* Spot exists: whichever id it named, the Spot was not the caller's.
C11_Witness ==
    /\ IsResponseTo("updateSpot", HTTP_404_NOT_FOUND)
    /\ spots # <<>>
    /\ \A s \in DOMAIN spots : spots[s].user # response.req.caller

\* ---- C12
\* C12: an upload to a Spot of the caller that is not an image is refused
\* with 400 and changes nothing; an image is accepted with 200 and sets the
\* Spot's image reference, every other field of it and every other Spot
\* staying as it was.
C12_UploadImage ==
    \A c \in Users, id \in DOMAIN spots, img \in Images :
        spots[id].user = c =>
            LET out == UploadImageOutcome(c, id, img)
            IN  IF img = "jpeg"
                THEN /\ out.status = HTTP_200_OK
                     /\ out.spots[id].image # 0
                     /\ DOMAIN out.spots = DOMAIN spots
                     /\ \A o \in DOMAIN spots \ {id} : out.spots[o] = spots[o]
                     /\ \A fld \in DOMAIN spots[id] \ {"image"} :
                            out.spots[id][fld] = spots[id][fld]
                ELSE /\ out.status = HTTP_400_BAD_REQUEST
                     /\ out.spots = spots

\* An image was attached to a Spot of the caller that is linked to a Tag.
C12_Witness ==
    /\ IsResponseTo("uploadImage", HTTP_200_OK)
    /\ spots[response.data[1]].user = response.req.caller
    /\ spots[response.data[1]].image # 0
    /\ spots[response.data[1]].tags # {}

\* ---- C13
\* C13 (as claimed): a GraphQL query executed without an authenticated
\* context, allSpots or spot, raises the authorization failure and returns
\* no Spot.
C13_GraphQLRequiresAuth ==
    (response.req.op \in {"allSpots", "spot"} /\ response.req.caller = Anonymous) =>
        response.status = AuthFail /\ response.data = <<>>

\* An unauthenticated spot query was served a Spot.
C13_Witness ==
    /\ response.req.op = "spot"
    /\ response.req.caller = Anonymous
    /\ response.status = Executed
    /\ response.data # <<>>

\* ---- C14
\* The owner of a record made by the step is its authenticated caller
CreatedBy(owner, op) ==
    /\ owner = response'.req.caller
    /\ owner \in Users
    /\ response'.req.op = op

\* C14: in every step each Tag, Location and Spot that exists keeps its
\* owner and stays in the store, and each record the step creates is owned
\* by the authenticated caller of the create request.
C14_OwnerSetOnceByCreator ==
    [][/\ Len(spots') >= Len(spots)
       /\ \A s \in DOMAIN spots : spots'[s].user = spots[s].user
       /\ \A s \in DOMAIN spots' \ DOMAIN spots :
              CreatedBy(spots'[s].user, "createSpot")
       /\ \A k \in Kinds :
              /\ Len(attrs'[k]) >= Len(attrs[k])
              /\ \A i \in DOMAIN attrs[k] : attrs'[k][i].user = attrs[k][i].user
              /\ \A i \in DOMAIN attrs'[k] \ DOMAIN attrs[k] :
                     CreatedBy(attrs'[k][i].user, "createAttr")]_vars

\* A user updated their own Spot while another user owns a Spot too.
C14_Witness ==
    /\ IsResponseTo("updateSpot", HTTP_200_OK)
    /\ spots[response.data[1]].user = response.req.caller
    /\ \E s \in DOMAIN spots : spots[s].user # response.req.caller

\* ---- C15
\* C15: every Spot a GraphQL query serves carries price_rating "Reasonable"
\* exactly when the price stored for it now is below 20.00 and "Expensive"
\* otherwise, 20.00 itself included.
C15_PriceRatingBoundary ==
    (response.req.op \in {"allSpots", "spot"} /\ response.status = Executed) =>
        \A i \in DOMAIN response.data :
            LET row == response.data[i]
            IN  /\ row.price = spots[row.id].price
                /\ row.price_rating \in {"Reasonable", "Expensive"}
                /\ row.price_rating = "Reasonable" <=> spots[row.id].price < 2000
                /\ spots[row.id].price = 2000 => row.price_rating = "Expensive"

\* The only Spot, created and then updated, is served at exactly 20.00 as
\* "Expensive".
C15_Witness ==
    /\ response.req.op = "spot" /\ response.status = Executed
    /\ Len(spots) = 1 /\ nwrites = 2
    /\ response.data # <<>>
    /\ spots[1].price = 2000
    /\ response.data[1].price_rating = "Expensive"

\* ---- C16
\* C16 (as claimed): a step served to one caller changes, for every other
\* user, neither the lists of Spots under any filters nor the lists of Tags
\* and Locations under either value of assigned_only.
C16_CallersIndependent ==
    [][\A b \in Users \ {response'.req.caller} :
           /\ \A k \in Kinds, p \in AssignedOnlyValues :
                  AttrQuerysets(k, b, p)' = AttrQuerysets(k, b, p)
           /\ \A t \in TagQueries, l \in LocationQueries :
                  SpotQuerysets(b, t, l)' = SpotQuerysets(b, t, l)]_vars

\* A Spot of one user was created linked to a Tag of another user, whose
\* list of assigned Tags now holds that Tag.
C16_Witness ==
    /\ IsResponseTo("createSpot", HTTP_201_CREATED)
    /\ \E i \in DOMAIN attrs["tags"] :
          /\ attrs["tags"][i].user # response.req.caller
          /\ i \in spots[response.data[1]].tags
          /\ <<i>> \in AttrQuerysets("tags", attrs["tags"][i].user, "1")

\* ---- C17
\* Both workers have run an accepted update of the same Spot to its end.
BothUpdated(r, o) ==
    /\ r # o
    /\ inflight[r].pc = "done" /\ inflight[o].pc = "done"
    /\ inflight[r].id = inflight[o].id

\* The Spot is as request r applied whole leaves it, whatever came before
WroteLast(r) ==
    \A f \in ScalarFields \cup ListFields :
        Validated(inflight[r], f) =>
            spots[inflight[r].id][f] =
                FieldValue(inflight[r].format, inflight[r].payload, f)

\* No field that o supplied and r did not has lost o's value
NotReverted(o, r) ==
    \A f \in ScalarFields \cup ListFields :
        (Validated(inflight[o], f) /\ ~Validated(inflight[r], f)) =>
            spots[inflight[o].id][f] =
                FieldValue(inflight[o].format, inflight[o].payload, f)

\* C17 (as claimed): when two updates of one Spot have both finished, the
\* Spot holds every field as one of them, the last, supplied it, and every
\* field only the other supplied as the other supplied it.
C17_LastWriterWinsWhole ==
    (\E r, o \in Requests : BothUpdated(r, o)) =>
        \E r, o \in Requests :
            BothUpdated(r, o) /\ WroteLast(r) /\ NotReverted(o, r)

\* Two PATCHes of one Spot have finished, one supplying only a title and
\* the other only a price, and the Spot does not have the title supplied.
C17_Witness ==
    \E r, o \in Requests :
        /\ BothUpdated(r, o)
        /\ inflight[r].method = "PATCH" /\ inflight[o].method = "PATCH"
        /\ inflight[r].payload.has = {"title"}
        /\ inflight[o].payload.has = {"price"}
        /\ spots[inflight[r].id].title # inflight[r].payload.title

\* ---- C18
\* The body names, in a list it carries, an id that is no Tag / Location
NamesMissingId(f, p) ==
    \E l \in ListFields : InDictionary(f, p, l) /\ ~(p[l] \subseteq DOMAIN attrs[l])

\* A create either makes one Spot with every scalar and list of the body, or
\* is refused and leaves the table as it was.
CreateIsAllOrNothing(out, p) ==
    IF out.status = HTTP_201_CREATED
    THEN /\ Len(out.spots) = Len(spots) + 1
         /\ SubSeq(out.spots, 1, Len(spots)) = spots
         /\ \A fld \in ScalarFields \cup ListFields :
                out.spots[Len(out.spots)][fld] = p[fld]
    ELSE /\ out.status \in {HTTP_400_BAD_REQUEST, HTTP_401_UNAUTHORIZED}
         /\ out.spots = spots

\* An update either writes every field its body supplies, or is refused and
\* leaves the table as it was.
UpdateIsAllOrNothing(out, id, p) ==
    IF out.status = HTTP_200_OK
    THEN /\ \A fld \in p.has : out.spots[id][fld] = p[fld]
         /\ DOMAIN out.spots = DOMAIN spots
         /\ \A o \in DOMAIN spots \ {id} : out.spots[o] = spots[o]
    ELSE /\ out.status \in {HTTP_400_BAD_REQUEST, HTTP_401_UNAUTHORIZED,
                            HTTP_404_NOT_FOUND}
         /\ out.spots = spots

\* C18: a create or update of a Spot is refused and changes nothing, or is
\* accepted and applies its scalars and all its lists; a body that names a
\* Tag or Location that does not exist is refused.
C18_AllOrNothing ==
    \A c \in Callers, f \in Formats, p \in UpdatePayloads :
        CanCarry(f, p) =>
            /\ CreateIsAllOrNothing(CreateSpotOutcome(c, f, p), p)
            /\ NamesMissingId(f, p) =>
                   CreateSpotOutcome(c, f, p).status # HTTP_201_CREATED
            /\ \A id \in Ids, m \in Methods :
                   /\ UpdateIsAllOrNothing(UpdateSpotOutcome(c, id, m, f, p), id, p)
                   /\ NamesMissingId(f, p) =>
                          UpdateSpotOutcome(c, id, m, f, p).status # HTTP_200_OK

\* A PUT of a Spot that has a title and a Tag was refused as invalid, and
\* the Spot still has both.
C18_Witness ==
    /\ IsResponseTo("updateSpot", HTTP_400_BAD_REQUEST)
    /\ spots # <<>>
    /\ spots[1].tags # {} /\ spots[1].title # 0

\* ---- C19
\* C19 (as claimed): a list of Spots holds each Spot at most once, whatever
\* the filters and however many of the named Tags and Locations a Spot is
\* linked to.
C19_ListSpotsUnique ==
    IsResponseTo("listSpots", HTTP_200_OK) => NoDuplicates(response.data)

\* A Spot linked to two Tags was listed twice.
C19_Witness ==
    /\ IsResponseTo("listSpots", HTTP_200_OK)
    /\ Len(response.data) = 2
    /\ response.data[1] = response.data[2]
    /\ Cardinality(spots[response.data[1]].tags) = 2
====
